---- MODULE Spec2Model ----
(***************************************************************************)
(* A model of the money_manager ledger: the relational store (accounts,    *)
(* wallets, transactions, flows), the create operations of the API         *)
(* (backend/app/__init__.py over backend/app/crud.py), the balance         *)
(* properties of Wallet (backend/app/models.py) and the import run of      *)
(* BaseImporter (importers/base.py).                                       *)
(*                                                                         *)
(* Amounts are Numeric(20, 2) values, held here as integers (hundredths).  *)
(* The storage engine is SQLite with PRAGMA foreign_keys=ON, as            *)
(* database.py configures it; its constraint messages and SQLAlchemy's     *)
(* rendering of an IntegrityError are modelled as the strings the handlers *)
(* search with "in".                                                       *)
(***************************************************************************)
EXTENDS Integers, Sequences, FiniteSets, TLC

VARIABLES
    accounts, wallets, transactions, flows,  \* the committed rows of the four tables
    resp,                  \* the response of the last API request served
    lock,                  \* the connection holding SQLite's write lock
    imp,                   \* the import run in progress
    BaseImporter_wallets,  \* the class attribute BaseImporter._wallets
    reqs                   \* the create-wallet requests served concurrently

store == <<accounts, wallets, transactions, flows>>
importer == <<imp, BaseImporter_wallets>>
vars == <<accounts, wallets, transactions, flows, resp, lock, imp,
          BaseImporter_wallets, reqs>>

(* ------------------------------ bounds --------------------------------- *)
\* the store holds at most MaxRows rows, all tables together
MaxRows == 7
\* ids a request may name
MaxId == 2
\* rows of a source file
MaxSourceRows == 2
\* flow descriptors BaseImporter._wallets holds
MaxDescriptors == 2

(* ------------------------------ inputs --------------------------------- *)
AccountNames == {"test", "Revolut"}
WalletNames == {"test", "UNIQUE"}
Amounts == {100}
WalletCurrencies == {"USD"}
TransactionTypes == {"INC"}
\* the value a create-flow payload gives for "state"
PayloadStates == {"CPL", "PDG", "RVT", "INVALID"}
\* the keys a create-flow payload carries
PayloadKeys ==
    {{"amount", "wallet_id", "transaction_id", "state"},
     {"amount", "wallet_id", "transaction_id"},
     {"amount", "transaction_id", "state"}}

(* ------------------------------ enums ---------------------------------- *)
Currency == {"EUR", "USD", "GBP"}
Operation == {"DEP", "WDR", "TRN", "INC", "PAY", "REF", "BAL", "OTH"}
State == {"CPL", "RVT", "PDG"}

(* ------------------------- sequence helpers ---------------------------- *)
Range(s) == {s[i] : i \in DOMAIN s}

RECURSIVE SumSeq(_)
SumSeq(s) == IF s = <<>> THEN 0 ELSE Head(s) + SumSeq(Tail(s))

SetMax(S) == CHOOSE m \in S : \A x \in S : x <= m

\* rowid of the next INSERT: SQLite INTEGER PRIMARY KEY, largest rowid + 1
NextId(rows) == IF rows = <<>> THEN 1 ELSE SetMax({r.id : r \in Range(rows)}) + 1

Ids(rows) == {r.id : r \in Range(rows)}

(* ----------------------- Python "needle in str" ------------------------ *)
StrIn(needle, s) ==
    \E i \in 1..(Len(s) - Len(needle) + 1) :
        SubSeq(s, i, i + Len(needle) - 1) = needle

\* the messages SQLite gives for the constraints of the schema
UniqueAccountMsg == "UNIQUE constraint failed: accounts.name"
UniqueWalletMsg == "UNIQUE constraint failed: wallets.name, wallets.account_id"
ForeignKeyMsg == "FOREIGN KEY constraint failed"

\* the INSERT statements the ORM emits for the mapped columns
InsertAccountSql == "INSERT INTO accounts (name) VALUES (?)"
InsertWalletSql == "INSERT INTO wallets (name, account_id, currency) VALUES (?, ?, ?)"
InsertFlowSql ==
    "INSERT INTO flows (wallet_id, amount, state, transaction_id) VALUES (?, ?, ?, ?)"

\* the substrings the handlers look for
Needles == {"UNIQUE", "FOREIGN KEY", "wallet_id", "transaction_id"}

FixedTexts ==
    {UniqueAccountMsg, UniqueWalletMsg, ForeignKeyMsg,
     InsertAccountSql, InsertWalletSql, InsertFlowSql}

\* StrIn over the fixed texts, evaluated once
FixedStrIn == [n \in Needles, t \in FixedTexts |-> StrIn(n, t)]

\* sqlalchemy.exc.IntegrityError; str(e) is
\*   (sqlite3.IntegrityError) <msg> [SQL: <sql>] [parameters: (<params>)]
\* No needle holds a bracket or a colon, so a needle occurs in str(e) exactly
\* when it occurs in the message, in the statement or in one parameter.
IntegrityError(msg, sql, params) ==
    [kind |-> "IntegrityError", msg |-> msg, sql |-> sql, params |-> params]

StrInError(needle, e) ==
    \/ FixedStrIn[needle, e.msg]
    \/ FixedStrIn[needle, e.sql]
    \/ \E i \in DOMAIN e.params : StrIn(needle, e.params[i])

(* ------------------------- Wallet.balance ------------------------------ *)
\* Wallet.flows as every flow of the table, whatever its wallet
WalletFlows_AnyWallet(fl, wid) == fl

\* relationship Wallet.flows: the flows whose wallet_id is the wallet's id
WalletFlows(fl, wid) == SelectSeq(fl, LAMBDA f : f.wallet_id = wid)

AmountsOf(fl) == [i \in DOMAIN fl |-> fl[i].amount]

\* balance without its condition on the state
balance_AnyState(fl, wid) == SumSeq(AmountsOf(WalletFlows(fl, wid)))

\* instance level: sum(flow.amount for flow in self.flows if flow.state == State.CPL)
balance(fl, wid) ==
    SumSeq(AmountsOf(SelectSeq(WalletFlows(fl, wid), LAMBDA f : f.state = "CPL")))

\* pending_balance over the pending flows alone
pending_balance_OnlyPending(fl, wid) ==
    SumSeq(AmountsOf(SelectSeq(WalletFlows(fl, wid), LAMBDA f : f.state = "PDG")))

\* pending_balance with the condition of balance
pending_balance_Completed(fl, wid) ==
    SumSeq(AmountsOf(SelectSeq(WalletFlows(fl, wid), LAMBDA f : f.state = "CPL")))

\* instance level: sum(flow.amount for flow in self.flows if flow.state != State.RVT)
pending_balance(fl, wid) ==
    SumSeq(AmountsOf(SelectSeq(WalletFlows(fl, wid), LAMBDA f : f.state /= "RVT")))

(* ---------------- Wallet.balance, the class-level expression ----------- *)
\* the operands of the comparisons: mapped columns and bound literals
Column(name) == [kind |-> "column", of |-> name]
Literal(value) == [kind |-> "literal", of |-> value]

\* Flow.wallet_id == cls.id, Flow.state == State.CPL, Flow.state != State.RVT:
\* each builds a BinaryExpression
BinaryExpression(op, left, right) == [op |-> op, left |-> left, right |-> right]

\* bool() of a BinaryExpression: for == and != , the operator applied to the
\* identities of its two operands
ClauseBool(c) == IF c.op = "eq" THEN c.left = c.right ELSE c.left /= c.right

\* Python's "a and b": a when a is false, else b
PyAnd(a, b) == IF ClauseBool(a) THEN b ELSE a

\* the clause as the database evaluates it on a row of flows joined to the
\* enclosing row of wallets
ClauseHolds(c, f, w) ==
    LET Value(t) ==
            IF t.kind = "literal" THEN t.of
            ELSE IF t.of = "flows.wallet_id" THEN ToString(f.wallet_id)
            ELSE IF t.of = "wallets.id" THEN ToString(w.id)
            ELSE f.state
    IN  IF c.op = "eq" THEN Value(c.left) = Value(c.right)
        ELSE Value(c.left) /= Value(c.right)

\* select(func.coalesce(func.sum(Flow.amount), 0)).where(clause)
SelectSum(fl, w, clause) ==
    SumSeq(AmountsOf(SelectSeq(fl, LAMBDA f : ClauseHolds(clause, f, w))))

balance_expression(fl, w) ==
    SelectSum(fl, w,
        PyAnd(BinaryExpression("eq", Column("flows.wallet_id"), Column("wallets.id")),
              BinaryExpression("eq", Column("flows.state"), Literal("CPL"))))

pending_balance_expression(fl, w) ==
    SelectSum(fl, w,
        PyAnd(BinaryExpression("eq", Column("flows.wallet_id"), Column("wallets.id")),
              BinaryExpression("ne", Column("flows.state"), Literal("RVT"))))

(* ------------------------------ store ---------------------------------- *)
NoError == [kind |-> "ok"]

\* accounts.name without unique=True
InsertAccountError_NotUnique(accs, name) == NoError

\* INSERT INTO accounts: UNIQUE(name)
InsertAccountError(accs, name) ==
    IF \E a \in Range(accs) : a.name = name
    THEN IntegrityError(UniqueAccountMsg, InsertAccountSql, <<name>>)
    ELSE NoError

\* wallets with UniqueConstraint("name") in place of ("name", "account_id")
InsertWalletError_UniqueName(accs, wals, w) ==
    LET params == <<w.name, ToString(w.account_id), w.currency>> IN
    IF \E x \in Range(wals) : x.name = w.name
    THEN IntegrityError(UniqueWalletMsg, InsertWalletSql, params)
    ELSE IF w.account_id \notin Ids(accs)
    THEN IntegrityError(ForeignKeyMsg, InsertWalletSql, params)
    ELSE NoError

\* wallets without the UniqueConstraint of __table_args__
InsertWalletError_NotUnique(accs, wals, w) ==
    IF w.account_id \notin Ids(accs)
    THEN IntegrityError(ForeignKeyMsg, InsertWalletSql,
             <<w.name, ToString(w.account_id), w.currency>>)
    ELSE NoError

\* INSERT INTO wallets: UNIQUE(name, account_id), then FOREIGN KEY(account_id)
InsertWalletError(accs, wals, w) ==
    LET params == <<w.name, ToString(w.account_id), w.currency>> IN
    IF \E x \in Range(wals) : x.name = w.name /\ x.account_id = w.account_id
    THEN IntegrityError(UniqueWalletMsg, InsertWalletSql, params)
    ELSE IF w.account_id \notin Ids(accs)
    THEN IntegrityError(ForeignKeyMsg, InsertWalletSql, params)
    ELSE NoError

\* flows.wallet_id without its ForeignKey
InsertFlowError_NoWalletKey(wals, txs, f) ==
    IF f.transaction_id \notin Ids(txs)
    THEN IntegrityError(ForeignKeyMsg, InsertFlowSql,
             <<ToString(f.wallet_id), ToString(f.amount), f.state,
               ToString(f.transaction_id)>>)
    ELSE NoError

\* flows.transaction_id without its ForeignKey
InsertFlowError_NoTransactionKey(wals, txs, f) ==
    IF f.wallet_id \notin Ids(wals)
    THEN IntegrityError(ForeignKeyMsg, InsertFlowSql,
             <<ToString(f.wallet_id), ToString(f.amount), f.state,
               ToString(f.transaction_id)>>)
    ELSE NoError

\* INSERT INTO flows: FOREIGN KEY(wallet_id), FOREIGN KEY(transaction_id)
InsertFlowError(wals, txs, f) ==
    IF f.wallet_id \notin Ids(wals) \/ f.transaction_id \notin Ids(txs)
    THEN IntegrityError(ForeignKeyMsg, InsertFlowSql,
             <<ToString(f.wallet_id), ToString(f.amount), f.state,
               ToString(f.transaction_id)>>)
    ELSE NoError

(* ----------------------------- schemas --------------------------------- *)
\* FlowCreate declares amount, wallet_id and transaction_id; model_dump()
\* returns the declared fields only
FlowCreate_fields == {"amount", "wallet_id", "transaction_id"}

\* pydantic: every declared field is required; undeclared keys are ignored
FlowCreate_missing(payload) == FlowCreate_fields \ payload.keys

\* the "loc" of the first error pydantic reports, in field order
FlowCreate_loc(payload) ==
    IF "amount" \notin payload.keys THEN "body.amount"
    ELSE IF "wallet_id" \notin payload.keys THEN "body.wallet_id"
    ELSE "body.transaction_id"

FlowCreate_model_dump(payload) ==
    [amount |-> payload.amount, wallet_id |-> payload.wallet_id,
     transaction_id |-> payload.transaction_id]

\* Flow.state: Column(Enum(State), nullable=False, default=State.CPL)
FlowStateDefault == "CPL"

Rows == Len(accounts) + Len(wallets) + Len(transactions) + Len(flows)

(* --------------------------- API handlers ------------------------------ *)
Response(op, status, detail) ==
    [op |-> op, status |-> status, detail |-> detail, body |-> <<>>]

\* POST /accounts/: the except clause of create_account
create_account_error(e) ==
    IF StrInError("UNIQUE", e)
    THEN Response("create_account", 409, "Account name already exists")
    ELSE Response("create_account", 500, "")

create_account(name) ==
    LET e == InsertAccountError(accounts, name) IN
    /\ lock = "none"
    /\ IF e.kind = "ok"
       THEN /\ Rows < MaxRows
            /\ accounts' = Append(accounts, [id |-> NextId(accounts), name |-> name])
            /\ resp' = Response("create_account", 200, "")
       ELSE /\ accounts' = accounts
            /\ resp' = create_account_error(e)
    /\ UNCHANGED <<wallets, transactions, flows, lock, importer, reqs>>

CreateAccount == \E name \in AccountNames : create_account(name)

\* POST /wallets/: the except clause of create_wallet
create_wallet_error(e) ==
    IF StrInError("UNIQUE", e)
    THEN Response("create_wallet", 409, "Wallet name already exists for this account")
    ELSE IF StrInError("FOREIGN KEY", e)
    THEN Response("create_wallet", 404, "Account not found")
    ELSE Response("create_wallet", 500, "")

WalletRow(wals, req) ==
    [id |-> NextId(wals), name |-> req.name, account_id |-> req.account_id,
     currency |-> req.currency]

create_wallet(req) ==
    LET e == InsertWalletError(accounts, wallets, req) IN
    /\ lock = "none"
    /\ IF e.kind = "ok"
       THEN /\ Rows < MaxRows
            /\ wallets' = Append(wallets, WalletRow(wallets, req))
            /\ resp' = Response("create_wallet", 200, "")
       ELSE /\ wallets' = wallets
            /\ resp' = create_wallet_error(e)
    /\ UNCHANGED <<accounts, transactions, flows, lock, importer, reqs>>

WalletRequests == [name : WalletNames, currency : WalletCurrencies, account_id : 1..MaxId]

CreateWallet == \E req \in WalletRequests : create_wallet(req)

\* the requests of create_test_wallet: name "test"
TestWalletRequests == {req \in WalletRequests : req.name = "test"}

CreateTestWallet == \E req \in TestWalletRequests : create_wallet(req)

\* POST /transactions/
create_transaction(req) ==
    /\ lock = "none"
    /\ Rows < MaxRows
    /\ transactions' = Append(transactions,
           [id |-> NextId(transactions), type |-> req.type, date |-> req.date,
            description |-> req.description])
    /\ resp' = Response("create_transaction", 200, "")
    /\ UNCHANGED <<accounts, wallets, flows, lock, importer, reqs>>

TransactionRequests == [type : TransactionTypes, date : {1}, description : {"test"}]

CreateTransaction == \E req \in TransactionRequests : create_transaction(req)

\* POST /flows/: the except clause of create_flow
create_flow_error(e) ==
    IF StrInError("FOREIGN KEY", e) /\ StrInError("wallet_id", e)
    THEN Response("create_flow", 404, "Wallet not found")
    ELSE IF StrInError("FOREIGN KEY", e) /\ StrInError("transaction_id", e)
    THEN Response("create_flow", 404, "Transaction not found")
    ELSE Response("create_flow", 500, "")

\* crud.create_flow: models.Flow(**flow.model_dump()); the columns the dump
\* does not name take their defaults
FlowRow(payload) == FlowCreate_model_dump(payload) @@ [state |-> FlowStateDefault]

create_flow(payload) ==
    LET row == FlowRow(payload)
        e == InsertFlowError(wallets, transactions, row)
    IN
    /\ lock = "none"
    /\ IF FlowCreate_missing(payload) /= {}
       THEN /\ flows' = flows
            /\ resp' = Response("create_flow", 422, FlowCreate_loc(payload))
       ELSE IF e.kind = "ok"
       THEN /\ Rows < MaxRows
            /\ flows' = Append(flows, [id |-> NextId(flows)] @@ row)
            /\ resp' = Response("create_flow", 200, "")
       ELSE /\ flows' = flows
            /\ resp' = create_flow_error(e)
    /\ UNCHANGED <<accounts, wallets, transactions, lock, importer, reqs>>

\* a key the payload does not carry has no value: the field holds a fixed
\* filler for it, which no handler reads.  The payload without wallet_id is
\* the one of test_create_flow_no_wallet.
FlowPayloads ==
    {p \in [keys : PayloadKeys, amount : Amounts, wallet_id : 1..MaxId,
            transaction_id : 1..MaxId, state : PayloadStates] :
        /\ "state" \notin p.keys => p.state = "CPL"
        /\ "wallet_id" \notin p.keys =>
              /\ p.wallet_id = 1
              /\ p.amount = 100
              /\ p.transaction_id = 1
              /\ p.state = "CPL"}

CreateFlow == \E payload \in FlowPayloads : create_flow(payload)

\* the payloads of create_test_flow: every key, amount 100.00, state CPL
TestFlowPayloads ==
    {p \in FlowPayloads :
        "state" \in p.keys /\ "wallet_id" \in p.keys /\ p.state = "CPL" /\ p.amount = 100}

CreateTestFlow == \E payload \in TestFlowPayloads : create_flow(payload)

(* ------------------------- API list handlers --------------------------- *)
\* a query parameter: left out (None) or given with an integer value
None == [given |-> FALSE, value |-> 0]
Given(v) == [given |-> TRUE, value |-> v]
\* ids a filter may name: 0, the ids rows can have, ids no row has
FilterValues == {None} \cup {Given(v) : v \in 0..MaxId}

\* limit: int = 100
DefaultLimit == 100
Skips == {0, 1}
Limits == {1, DefaultLimit}

\* query.offset(skip).limit(limit)
OffsetLimit(rows, skip, limit) ==
    SubSeq(rows, skip + 1, IF skip + limit < Len(rows) THEN skip + limit ELSE Len(rows))

\* Query.all() on one mapped class: each object once, in the order met
Unique(rows) ==
    LET Kept[i \in 0..Len(rows)] ==
            IF i = 0 THEN <<>>
            ELSE IF rows[i] \in Range(Kept[i - 1]) THEN Kept[i - 1]
            ELSE Append(Kept[i - 1], rows[i])
    IN  Kept[Len(rows)]

ListResponse(op, rows) == [op |-> op, status |-> 200, detail |-> "", body |-> rows]

\* crud.get_wallets: "if account_id:" is the truth value of the parameter
get_wallets(skip, limit, account_id) ==
    LET query == IF account_id.given /\ account_id.value /= 0
                 THEN SelectSeq(wallets, LAMBDA w : w.account_id = account_id.value)
                 ELSE wallets
    IN  Unique(OffsetLimit(query, skip, limit))

read_wallets(skip, limit, account_id) ==
    /\ resp' = ListResponse("read_wallets", get_wallets(skip, limit, account_id))
    /\ UNCHANGED <<store, lock, importer, reqs>>

ReadWallets ==
    \E skip \in Skips, limit \in Limits, account_id \in FilterValues :
        read_wallets(skip, limit, account_id)

\* FROM transactions, flows: the filter names a column of flows and the query
\* has no join, so the rows are the pairs (transaction, flow), here with the
\* transactions as the outer loop
TransactionsFlows ==
    [k \in 1..(Len(transactions) * Len(flows)) |->
        [transaction |-> transactions[((k - 1) \div Len(flows)) + 1],
         flow |-> flows[((k - 1) % Len(flows)) + 1]]]

\* crud.get_transactions
get_transactions(skip, limit, wallet_id) ==
    IF wallet_id.given
    THEN LET pairs == SelectSeq(TransactionsFlows,
                                LAMBDA r : r.flow.wallet_id = wallet_id.value)
             page == OffsetLimit(pairs, skip, limit)
         IN  Unique([i \in DOMAIN page |-> page[i].transaction])
    ELSE Unique(OffsetLimit(transactions, skip, limit))

read_transactions(skip, limit, wallet_id) ==
    /\ resp' = ListResponse("read_transactions", get_transactions(skip, limit, wallet_id))
    /\ UNCHANGED <<store, lock, importer, reqs>>

ReadTransactions ==
    \E skip \in Skips, limit \in Limits, wallet_id \in FilterValues :
        read_transactions(skip, limit, wallet_id)

\* crud.get_flows
get_flows(skip, limit, transaction_id, wallet_id) ==
    LET byTransaction ==
            IF transaction_id.given
            THEN SelectSeq(flows, LAMBDA f : f.transaction_id = transaction_id.value)
            ELSE flows
        byWallet ==
            IF wallet_id.given
            THEN SelectSeq(byTransaction, LAMBDA f : f.wallet_id = wallet_id.value)
            ELSE byTransaction
    IN  Unique(OffsetLimit(byWallet, skip, limit))

read_flows(skip, limit, transaction_id, wallet_id) ==
    /\ resp' = ListResponse("read_flows", get_flows(skip, limit, transaction_id, wallet_id))
    /\ UNCHANGED <<store, lock, importer, reqs>>

ReadFlows ==
    \E skip \in Skips, limit \in Limits,
       transaction_id \in FilterValues, wallet_id \in FilterValues :
        read_flows(skip, limit, transaction_id, wallet_id)

(* ------------------------ importers/revolut.py ------------------------- *)
Type ==
    {"TOPUP", "CARD_PAYMENT", "TRANSFER", "REFUND", "EXCHANGE", "CARD_CREDIT",
     "CARD_REFUND", "FEE"}

RevolutState == {"PENDING", "COMPLETED", "REVERTED"}

type_map ==
    [t \in Type |->
        CASE t = "TOPUP" -> "DEP"
          [] t = "CARD_PAYMENT" -> "PAY"
          [] t = "TRANSFER" -> "TRN"
          [] t = "REFUND" -> "REF"
          [] t = "EXCHANGE" -> "TRN"
          [] t = "CARD_CREDIT" -> "INC"
          [] t = "CARD_REFUND" -> "REF"
          [] t = "FEE" -> "PAY"]

state_map ==
    [st \in RevolutState |->
        CASE st = "PENDING" -> "PDG"
          [] st = "COMPLETED" -> "CPL"
          [] st = "REVERTED" -> "RVT"]

\* RevolutFlow(**row): the enum fields must name a member
RevolutFlow_valid(row) ==
    /\ row.type \in Type
    /\ row.state \in RevolutState
    /\ row.currency \in Currency

\* the key without the currency
WalletKey_Product(row) == row.product

\* f"{flow.product} ({flow.currency})": an Enum member formats as Class.NAME
WalletKey(row) == row.product \o " (Currency." \o row.currency \o ")"

KeyIndex(ws, key) == CHOOSE i \in DOMAIN ws : ws[i].name = key

\* the loop body with the fee appended as it is read, not negated
ImportRow_FeeNotNegated(ws, row) ==
    LET key == WalletKey(row)
        ws1 == IF \E i \in DOMAIN ws : ws[i].name = key
               THEN ws
               ELSE Append(ws, [name |-> key, currency |-> row.currency, flows |-> <<>>])
        k == KeyIndex(ws1, key)
        primary == [type |-> type_map[row.type], date |-> row.started_date,
                    description |-> row.description, amount |-> row.amount,
                    state |-> state_map[row.state]]
        fee == [type |-> "PAY", date |-> row.started_date, description |-> "Fee",
                amount |-> row.fee, state |-> state_map[row.state]]
        added == IF row.fee /= 0 THEN <<primary, fee>> ELSE <<primary>>
    IN  [ws1 EXCEPT ![k].flows = @ \o added]

\* the body of the loop "for flow in flows" of _import_data, on the dict ws
\* (a sequence in insertion order, keyed by name)
ImportRow(ws, row) ==
    LET key == WalletKey(row)
        ws1 == IF \E i \in DOMAIN ws : ws[i].name = key
               THEN ws
               ELSE Append(ws, [name |-> key, currency |-> row.currency, flows |-> <<>>])
        k == KeyIndex(ws1, key)
        primary == [type |-> type_map[row.type], date |-> row.started_date,
                    description |-> row.description, amount |-> row.amount,
                    state |-> state_map[row.state]]
        fee == [type |-> "PAY", date |-> row.started_date, description |-> "Fee",
                amount |-> -row.fee, state |-> state_map[row.state]]
        added == IF row.fee /= 0 THEN <<primary, fee>> ELSE <<primary>>
    IN  [ws1 EXCEPT ![k].flows = @ \o added]

RECURSIVE ImportRows(_, _)
ImportRows(ws, rows) ==
    IF rows = <<>> THEN ws ELSE ImportRows(ImportRow(ws, Head(rows)), Tail(rows))

\* the rows a source file may hold
SourceRows ==
    {[type |-> "TOPUP", product |-> "Current", started_date |-> 1,
      description |-> "Top-Up", amount |-> 100, fee |-> 0, currency |-> "EUR",
      state |-> "COMPLETED"],
     [type |-> "CARD_PAYMENT", product |-> "Current", started_date |-> 2,
      description |-> "Shop", amount |-> -200, fee |-> 100, currency |-> "EUR",
      state |-> "PENDING"],
     [type |-> "TRANSFER", product |-> "Current", started_date |-> 3,
      description |-> "To USD", amount |-> 100, fee |-> 0, currency |-> "USD",
      state |-> "REVERTED"],
     [type |-> "ATM", product |-> "Current", started_date |-> 4,
      description |-> "Cash", amount |-> -200, fee |-> 0, currency |-> "EUR",
      state |-> "COMPLETED"]}

Sources == UNION {[1..n -> SourceRows] : n \in 1..MaxSourceRows}

\* a row of another product, pending, with a positive amount
SavingsRows ==
    {[type |-> "CARD_REFUND", product |-> "Savings", started_date |-> 5,
      description |-> "Refund", amount |-> 100, fee |-> 0, currency |-> "EUR",
      state |-> "PENDING"]}

\* the files of an account with both products
MoreSources == UNION {[1..n -> SourceRows \cup SavingsRows] : n \in 1..MaxSourceRows}

(* -------------------------- importers/base.py -------------------------- *)
account_name == "Revolut"

NoTx == [accounts |-> <<>>, wallets |-> <<>>, transactions |-> <<>>, flows |-> <<>>]
ImpIdle ==
    [pc |-> "idle", account_db |-> 0, tx |-> NoTx, result |-> "none", session |-> "none"]

\* with SessionLocal() as db: leaving the block, by return or by exception,
\* closes the session
SessionLocal_exit(i) == [i EXCEPT !.session = "closed"]

Committed ==
    [accounts |-> accounts, wallets |-> wallets, transactions |-> transactions,
     flows |-> flows]

RowsOf(t) == Len(t.accounts) + Len(t.wallets) + Len(t.transactions) + Len(t.flows)

\* the flow descriptors of the wallet descriptors, each with the position of
\* its wallet descriptor
RECURSIVE FlowDescriptors(_, _)
FlowDescriptors(ws, i) ==
    IF i > Len(ws) THEN <<>>
    ELSE [j \in DOMAIN ws[i].flows |-> [wallet |-> i, flow |-> ws[i].flows[j]]]
             \o FlowDescriptors(ws, i + 1)

\* the account taken to be the first of the table, whatever its name
FlushAccount_FirstAccount(t, account_db) ==
    IF t.accounts /= <<>>
    THEN [tx |-> t, error |-> NoError, account_id |-> t.accounts[1].id]
    ELSE [tx |-> [t EXCEPT !.accounts =
                     Append(@, [id |-> NextId(t.accounts), name |-> account_name])],
          error |-> NoError, account_id |-> NextId(t.accounts)]

\* flush, accounts: the Account added when the query found none
FlushAccount(t, account_db) ==
    IF account_db /= 0
    THEN [tx |-> t, error |-> NoError, account_id |-> account_db]
    ELSE LET e == InsertAccountError(t.accounts, account_name) IN
         IF e.kind /= "ok"
         THEN [tx |-> t, error |-> e, account_id |-> 0]
         ELSE [tx |-> [t EXCEPT !.accounts =
                          Append(@, [id |-> NextId(t.accounts), name |-> account_name])],
               error |-> NoError, account_id |-> NextId(t.accounts)]

\* flush, wallets: one INSERT per Wallet, in the order they were added
RECURSIVE FlushWallets(_, _, _, _)
FlushWallets(t, ws, i, account_id) ==
    IF i > Len(ws) THEN [tx |-> t, error |-> NoError, ids |-> <<>>]
    ELSE LET row == [name |-> ws[i].name, account_id |-> account_id,
                     currency |-> ws[i].currency]
             e == InsertWalletError(t.accounts, t.wallets, row)
             id == NextId(t.wallets)
             rest == FlushWallets([t EXCEPT !.wallets = Append(@, [id |-> id] @@ row)],
                                  ws, i + 1, account_id)
         IN  IF e.kind /= "ok"
             THEN [tx |-> t, error |-> e, ids |-> <<>>]
             ELSE [tx |-> rest.tx, error |-> rest.error, ids |-> <<id>> \o rest.ids]

\* the pairs with each Flow tied to the Transaction inserted before its own
RECURSIVE FlushPairs_PreviousTransaction(_, _, _)
FlushPairs_PreviousTransaction(t, ds, wallet_ids) ==
    IF ds = <<>> THEN t
    ELSE LET d == Head(ds)
             tid == NextId(t.transactions)
             transaction_db == [id |-> tid, type |-> d.flow.type, date |-> d.flow.date,
                                description |-> d.flow.description]
             flow_db == [id |-> NextId(t.flows), wallet_id |-> wallet_ids[d.wallet],
                         amount |-> d.flow.amount, state |-> d.flow.state,
                         transaction_id |->
                             IF t.transactions = <<>> THEN tid
                             ELSE t.transactions[Len(t.transactions)].id]
         IN  FlushPairs_PreviousTransaction(
                 [t EXCEPT !.transactions = Append(@, transaction_db),
                           !.flows = Append(@, flow_db)],
                 Tail(ds), wallet_ids)

\* flush, transactions and flows: each Flow is tied to the Wallet of its
\* descriptor and to the Transaction built from the same descriptor
RECURSIVE FlushPairs(_, _, _)
FlushPairs(t, ds, wallet_ids) ==
    IF ds = <<>> THEN t
    ELSE LET d == Head(ds)
             tid == NextId(t.transactions)
             transaction_db == [id |-> tid, type |-> d.flow.type, date |-> d.flow.date,
                                description |-> d.flow.description]
             flow_db == [id |-> NextId(t.flows), wallet_id |-> wallet_ids[d.wallet],
                         amount |-> d.flow.amount, state |-> d.flow.state,
                         transaction_id |-> tid]
         IN  FlushPairs([t EXCEPT !.transactions = Append(@, transaction_db),
                                  !.flows = Append(@, flow_db)],
                        Tail(ds), wallet_ids)

\* self.db.flush() of _gen_db_data: the rows of the transaction after it, and
\* the error that stopped it
Flush(t, ws, account_db) ==
    LET a == FlushAccount(t, account_db)
        w == FlushWallets(a.tx, ws, 1, a.account_id)
    IN  IF a.error.kind /= "ok" THEN [tx |-> a.tx, error |-> a.error]
        ELSE IF w.error.kind /= "ok" THEN [tx |-> w.tx, error |-> w.error]
        ELSE [tx |-> FlushPairs(w.tx, FlowDescriptors(ws, 1), w.ids), error |-> NoError]

ValidRows(source) == SelectSeq(source, RevolutFlow_valid)

\* import_data, up to self.db.begin(): a new importer reads its file; a row
\* RevolutFlow rejects ends the run before begin()
\* import_data with self.db.begin() ahead of self._import_data(), inside try
import_data_BeginFirst(source) ==
    /\ imp.pc = "idle"
    /\ IF \A i \in DOMAIN source : RevolutFlow_valid(source[i])
       THEN /\ BaseImporter_wallets' = ImportRows(BaseImporter_wallets, source)
            /\ imp' = [ImpIdle EXCEPT !.pc = "begun", !.result = "running",
                                       !.session = "open"]
       ELSE /\ BaseImporter_wallets' = BaseImporter_wallets
            /\ imp' = [ImpIdle EXCEPT !.pc = "failed", !.result = "running",
                                       !.session = "open"]
    /\ UNCHANGED <<store, resp, lock, reqs>>

\* the number of flow descriptors the rows of a source add
SourceDescriptors ==
    [source \in MoreSources |-> Len(FlowDescriptors(ImportRows(<<>>, ValidRows(source)), 1))]

import_data(source) ==
    /\ imp.pc = "idle"
    /\ Len(FlowDescriptors(BaseImporter_wallets, 1)) + SourceDescriptors[source]
           <= MaxDescriptors
    /\ IF \A i \in DOMAIN source : RevolutFlow_valid(source[i])
       THEN /\ BaseImporter_wallets' = ImportRows(BaseImporter_wallets, source)
            /\ imp' = [ImpIdle EXCEPT !.pc = "begun", !.result = "running",
                                       !.session = "open"]
       ELSE /\ BaseImporter_wallets' = BaseImporter_wallets
            /\ imp' = SessionLocal_exit([ImpIdle EXCEPT !.result = "parse error"])
    /\ UNCHANGED <<store, resp, lock, reqs>>

ImportParse == \E source \in Sources : import_data(source)

ImportParseMore == \E source \in MoreSources : import_data(source)

\* _gen_db_data, up to flush: the query for the account and the objects added
\* to the session
ImportGenerate ==
    /\ imp.pc = "begun"
    /\ imp' = [imp EXCEPT !.pc = "generated",
                          !.account_db =
                              IF \E a \in Range(accounts) : a.name = account_name
                              THEN (CHOOSE a \in Range(accounts) : a.name = account_name).id
                              ELSE 0]
    /\ UNCHANGED <<store, resp, lock, BaseImporter_wallets, reqs>>

\* self.db.flush(): the INSERTs run inside the session's transaction, which
\* holds the write lock from the first of them on
ImportFlush ==
    LET out == Flush(Committed, BaseImporter_wallets, imp.account_db) IN
    /\ imp.pc = "generated"
    /\ lock = "none"
    /\ out.error.kind = "ok" => RowsOf(out.tx) <= MaxRows
    /\ lock' = "importer"
    /\ imp' = [imp EXCEPT !.pc = IF out.error.kind = "ok" THEN "flushed" ELSE "failed",
                          !.tx = out.tx]
    /\ UNCHANGED <<store, resp, BaseImporter_wallets, reqs>>

\* self.db.commit()
ImportCommit ==
    /\ imp.pc = "flushed"
    /\ accounts' = imp.tx.accounts
    /\ wallets' = imp.tx.wallets
    /\ transactions' = imp.tx.transactions
    /\ flows' = imp.tx.flows
    /\ lock' = "none"
    /\ imp' = SessionLocal_exit([ImpIdle EXCEPT !.result = "ok"])
    /\ UNCHANGED <<resp, BaseImporter_wallets, reqs>>

\* self.db.commit() raising (the storage fails to write)
ImportCommitError ==
    /\ imp.pc = "flushed"
    /\ imp' = [imp EXCEPT !.pc = "failed"]
    /\ UNCHANGED <<store, resp, lock, BaseImporter_wallets, reqs>>

\* the except clause committing what the flush wrote
ImportRollback_Commits ==
    /\ imp.pc = "failed"
    /\ accounts' = imp.tx.accounts
    /\ wallets' = imp.tx.wallets
    /\ transactions' = imp.tx.transactions
    /\ flows' = imp.tx.flows
    /\ lock' = "none"
    /\ imp' = SessionLocal_exit([ImpIdle EXCEPT !.result = "error"])
    /\ UNCHANGED <<resp, BaseImporter_wallets, reqs>>

\* except Exception: self.db.rollback(); raise
ImportRollback ==
    /\ imp.pc = "failed"
    /\ lock' = "none"
    /\ imp' = SessionLocal_exit([ImpIdle EXCEPT !.result = "error"])
    /\ UNCHANGED <<store, resp, BaseImporter_wallets, reqs>>

\* python -m importers: a new process, where the class body of BaseImporter
\* has just run
NewProcess ==
    /\ imp.pc = "idle"
    /\ BaseImporter_wallets /= <<>>
    /\ BaseImporter_wallets' = <<>>
    /\ UNCHANGED <<store, resp, lock, imp, reqs>>

(* ------------- POST /wallets/ served by concurrent threads ------------- *)
\* Each request has its own session (get_db).  crud.create_wallet is db.add
\* then db.commit; the commit flushes (the INSERT, which takes SQLite's write
\* lock or waits for it) and then commits (which releases it).
Workers == {"r1", "r2"}
ReqIdle == [pc |-> "idle", req |-> <<>>, row |-> <<>>, status |-> 0, overlapped |-> FALSE,
            account_found |-> FALSE, session |-> "none"]

\* get_db without its finally clause
get_db_NoFinally(r) == r

\* get_db: finally: db.close(), run when the request is over
get_db(r) == [r EXCEPT !.session = "closed"]

\* the request arrives: db = SessionLocal(); db.add(db_wallet).  overlapped and account_found
\* record what was true on arrival: another request in flight, the account
\* of the request committed
ReqAdd(w) ==
    \E req \in TestWalletRequests :
        /\ reqs[w].pc \in {"idle", "done"}
        /\ reqs' = [reqs EXCEPT ![w] =
               [pc |-> "added", req |-> req, row |-> <<>>, status |-> 0,
                overlapped |-> \E v \in Workers \ {w} : reqs[v].pc \in {"added", "inserted"},
                account_found |-> req.account_id \in Ids(accounts),
                session |-> "open"]]
        /\ UNCHANGED <<store, resp, lock, importer>>

\* db.commit(), the flush: the INSERT succeeds and holds the lock, or raises
\* IntegrityError, which the handler turns into its response
ReqInsert(w) ==
    LET e == InsertWalletError(accounts, wallets, reqs[w].req) IN
    /\ reqs[w].pc = "added"
    /\ lock = "none"
    /\ IF e.kind = "ok"
       THEN /\ Rows < MaxRows
            /\ lock' = w
            /\ reqs' = [reqs EXCEPT ![w].pc = "inserted",
                                    ![w].row = WalletRow(wallets, reqs[w].req)]
       ELSE /\ lock' = lock
            /\ reqs' = [reqs EXCEPT ![w] =
                   get_db([reqs[w] EXCEPT !.pc = "done",
                                          !.status = create_wallet_error(e).status])]
    /\ UNCHANGED <<store, resp, importer>>

\* db.commit() while another connection holds the write lock for longer than
\* the busy timeout: OperationalError, which create_wallet does not catch
ReqLocked(w) ==
    /\ reqs[w].pc = "added"
    /\ lock /= "none"
    /\ reqs' = [reqs EXCEPT ![w] = get_db([reqs[w] EXCEPT !.pc = "done", !.status = 500])]
    /\ UNCHANGED <<store, resp, lock, importer>>

\* db.commit(), the COMMIT; db.refresh; the response
ReqCommit(w) ==
    /\ reqs[w].pc = "inserted"
    /\ wallets' = Append(wallets, reqs[w].row)
    /\ lock' = "none"
    /\ reqs' = [reqs EXCEPT ![w] = get_db([reqs[w] EXCEPT !.pc = "done", !.status = 200])]
    /\ UNCHANGED <<accounts, transactions, flows, resp, importer>>

Init ==
    /\ accounts = <<>>
    /\ wallets = <<>>
    /\ transactions = <<>>
    /\ flows = <<>>
    /\ resp = Response("none", 0, "")
    /\ lock = "none"
    /\ imp = ImpIdle
    /\ BaseImporter_wallets = <<>>
    /\ reqs = [w \in Workers |-> ReqIdle]

Next ==
    \/ CreateAccount
    \/ CreateWallet
    \/ CreateTransaction
    \/ CreateFlow

Spec == Init /\ [][Next]_vars

NextImport ==
    \/ CreateAccount
    \/ CreateTestWallet
    \/ CreateTestFlow
    \/ ImportParse
    \/ ImportGenerate
    \/ ImportFlush
    \/ ImportCommit
    \/ ImportCommitError
    \/ ImportRollback
    \/ NewProcess

SpecImport == Init /\ [][NextImport]_vars

NextConc ==
    \/ CreateAccount
    \/ \E w \in Workers : ReqAdd(w)
    \/ \E w \in Workers : ReqInsert(w)
    \/ \E w \in Workers : ReqCommit(w)

SpecConc == Init /\ [][NextConc]_vars

\* import runs alone, on a store where accounts may exist
NextParse ==
    \/ CreateAccount
    \/ ImportParseMore
    \/ ImportGenerate
    \/ ImportFlush
    \/ ImportCommit
    \/ ImportCommitError
    \/ ImportRollback
    \/ NewProcess

SpecParse == Init /\ [][NextParse]_vars

\* one request at a time beside the import run
NextSession ==
    \/ ReqAdd("r1")
    \/ ReqInsert("r1")
    \/ ReqLocked("r1")
    \/ ReqCommit("r1")
    \/ ImportParse
    \/ ImportGenerate
    \/ ImportFlush
    \/ ImportCommit
    \/ ImportCommitError
    \/ ImportRollback
    \/ NewProcess

SpecSession == Init /\ [][NextSession]_vars

NextRead ==
    \/ CreateAccount
    \/ CreateWallet
    \/ CreateTransaction
    \/ CreateTestFlow
    \/ ReadWallets
    \/ ReadTransactions
    \/ ReadFlows

SpecRead == Init /\ [][NextRead]_vars

(* ======================= claims: API create operations ================== *)

WalletExists(req) ==
    \E x \in Range(wallets) : x.name = req.name /\ x.account_id = req.account_id

\* C4: creating an account whose name is that of a persisted account answers
\* 409 "Account name already exists" and leaves the accounts as they were.
C4_DuplicateAccountConflict ==
    [][\A name \in AccountNames :
          ((\E a \in Range(accounts) : a.name = name) /\ create_account(name))
          => /\ resp'.status = 409
             /\ resp'.detail = "Account name already exists"
             /\ accounts' = accounts]_vars

C4_Witness ==
    /\ resp.op = "create_account"
    /\ resp.status = 409
    /\ Len(accounts) = 1

\* C5: creating a wallet whose (name, account_id) is that of a persisted wallet
\* answers 409 and persists nothing; creating a wallet whose name is taken only
\* under another account, for an existing account, succeeds and persists it.
C5_WalletUniquePerAccount ==
    [][\A req \in WalletRequests :
          /\ (WalletExists(req) /\ create_wallet(req))
             => (resp'.status = 409 /\ wallets' = wallets)
          /\ (/\ ~WalletExists(req)
              /\ \E x \in Range(wallets) : x.name = req.name
              /\ req.account_id \in Ids(accounts)
              /\ create_wallet(req))
             => /\ resp'.status = 200
                /\ wallets' = Append(wallets, WalletRow(wallets, req))]_vars

C5_Witness ==
    /\ resp.op = "create_wallet"
    /\ resp.status = 409
    /\ \E i, j \in DOMAIN wallets :
          /\ wallets[i].name = wallets[j].name
          /\ wallets[i].account_id /= wallets[j].account_id

\* C6: creating a wallet whose account_id is that of no account answers 404,
\* whatever its name and currency, and persists no wallet.
C6_MissingAccountNotFound ==
    [][\A req \in WalletRequests :
          (req.account_id \notin Ids(accounts) /\ create_wallet(req))
          => (resp'.status = 404 /\ wallets' = wallets)]_vars

\* C7: creating a flow whose wallet_id or transaction_id is that of no row
\* answers 404 and leaves the flows, and every wallet's balance and
\* pending_balance, as they were.
C7_Rejected ==
    /\ resp'.status = 404
    /\ flows' = flows
    /\ \A w \in Range(wallets) :
          /\ balance(flows', w.id) = balance(flows, w.id)
          /\ pending_balance(flows', w.id) = pending_balance(flows, w.id)

\* (a step that is rejected so is not examined further: the disjunction is
\* the implication "a create_flow of a dangling payload => C7_Rejected")
C7_MissingReferenceNotFound ==
    [][\/ resp'.op /= "create_flow"
       \/ C7_Rejected
       \/ ~\E p \in FlowPayloads :
              /\ FlowCreate_missing(p) = {}
              /\ (p.wallet_id \notin Ids(wallets)
                   \/ p.transaction_id \notin Ids(transactions))
              /\ create_flow(p)]_vars

C7_Witness ==
    /\ resp.op = "create_flow"
    /\ resp.status = 404
    /\ wallets /= <<>>
    /\ transactions = <<>>

\* C8: a create-flow payload without the key state, or with a state outside
\* {CPL, PDG, RVT}, is answered 422 at body.state and persists no flow (here
\* for the payloads of the tests, whose other fields are valid).
C8_StateRequired ==
    [][\A p \in FlowPayloads :
          (/\ "state" \notin p.keys \/ p.state \notin State
           /\ FlowCreate_missing(p) = {}
           /\ p.wallet_id \in Ids(wallets)
           /\ p.transaction_id \in Ids(transactions)
           /\ create_flow(p))
          => /\ resp'.status = 422
             /\ resp'.detail = "body.state"
             /\ flows' = flows]_vars

(* ============================ claims: balances ========================== *)

RECURSIVE SumAmounts(_)
SumAmounts(F) ==
    IF F = {} THEN 0
    ELSE LET f == CHOOSE x \in F : TRUE IN f.amount + SumAmounts(F \ {f})

\* C1: the balance of every wallet is the sum of the amounts of the flows of
\* that wallet whose state is CPL (0 when there is none).
C1_BalanceIsCompletedSum ==
    \A w \in Range(wallets) :
        balance(flows, w.id) =
            SumAmounts({f \in Range(flows) : f.wallet_id = w.id /\ f.state = "CPL"})

\* two wallets with flows, one of them with a flow that is not CPL
C1_Witness ==
    \E v, w \in Range(wallets) :
        /\ v.id /= w.id
        /\ \E f \in Range(flows) : f.wallet_id = v.id /\ f.state = "CPL"
        /\ \E f \in Range(flows) : f.wallet_id = w.id /\ f.state /= "CPL"
        /\ balance(flows, v.id) /= 0
        /\ balance(flows, w.id) = 0

\* C2: the pending_balance of every wallet is the sum of the amounts of the
\* flows of that wallet whose state is not RVT (0 when there is none).
C2_PendingIsNotRevertedSum ==
    \A w \in Range(wallets) :
        pending_balance(flows, w.id) =
            SumAmounts({f \in Range(flows) : f.wallet_id = w.id /\ f.state /= "RVT"})

\* a wallet with a CPL flow and a PDG flow
C2_Witness ==
    \E w \in Range(wallets) :
        /\ \E f \in Range(flows) : f.wallet_id = w.id /\ f.state = "CPL"
        /\ \E f \in Range(flows) : f.wallet_id = w.id /\ f.state = "PDG"
        /\ pending_balance(flows, w.id) /= balance(flows, w.id)

\* C3: for every wallet, the class-level expressions of balance and of
\* pending_balance give the values of the instance-level properties.
C3_ExpressionAgrees ==
    \A w \in Range(wallets) :
        /\ balance_expression(flows, w) = balance(flows, w.id)
        /\ pending_balance_expression(flows, w) = pending_balance(flows, w.id)

(* ============================ claims: import ============================ *)

\* the rows of t that are not rows of the committed table
NewRows(t, committed) == SelectSeq(t, LAMBDA r : r \notin Range(committed))

\* every wallet descriptor has a new wallet that holds its flows, every flow
\* descriptor a new transaction and a new flow, under the importer's account
BatchVisible(accs, wals, txs, fls) ==
    /\ \E a \in Range(accs) : a.name = account_name
    /\ Len(wals) = Len(wallets) + Len(BaseImporter_wallets)
    /\ Len(txs) = Len(transactions) + Len(FlowDescriptors(BaseImporter_wallets, 1))
    /\ Len(fls) = Len(flows) + Len(FlowDescriptors(BaseImporter_wallets, 1))
    /\ \A i \in DOMAIN BaseImporter_wallets :
          \E w \in Range(NewRows(wals, wallets)) :
              /\ w.name = BaseImporter_wallets[i].name
              /\ AmountsOf(WalletFlows(fls, w.id)) =
                     AmountsOf(BaseImporter_wallets[i].flows)

\* C9: a step of an import run leaves the committed rows as they are, unless
\* it is the commit of a run no step of which failed, which makes the whole
\* batch visible at once; a run that fails ends with the rows it found.
C9_ImportAtomic ==
    [][imp' /= imp =>
          \/ store' = store
          \/ /\ imp.pc = "flushed"
             /\ imp'.result = "ok"
             /\ BatchVisible(accounts', wallets', transactions', flows')]_vars

\* a flush that failed after it had written a wallet
C9_Witness ==
    /\ imp.pc = "failed"
    /\ Len(imp.tx.wallets) > Len(wallets)
    /\ imp.tx.flows = flows

(* ====================== claims: concurrent requests ===================== *)

SameWallet(a, b) == a.name = b.name /\ a.account_id = b.account_id

TransactionsOn(wid) ==
    {t \in Range(transactions) :
        \E f \in Range(flows) : f.transaction_id = t.id /\ f.wallet_id = wid}

\* C11: listing the transactions with a wallet_id returns only transactions
\* that have a flow on that wallet, and with the default skip and limit all
\* of them.
C11_TransactionsOfWallet ==
    [][\/ resp'.op /= "read_transactions"
       \/ \A skip \in Skips, limit \in Limits, wid \in 0..MaxId :
             read_transactions(skip, limit, Given(wid)) =>
                 /\ Range(resp'.body) \subseteq TransactionsOn(wid)
                 /\ (skip = 0 /\ limit = DefaultLimit) =>
                        Range(resp'.body) = TransactionsOn(wid)]_vars

\* C18: listing the wallets with an account_id, or the flows with a
\* wallet_id, a transaction_id or both, returns only rows that satisfy every
\* filter given; a filter value no row has gives the empty list.
C18_FiltersConjoin ==
    [][/\ \/ resp'.op /= "read_wallets"
          \/ \A skip \in Skips, limit \in Limits, aid \in 0..MaxId :
                read_wallets(skip, limit, Given(aid)) =>
                    \A w \in Range(resp'.body) : w.account_id = aid
       /\ \/ resp'.op /= "read_flows"
          \/ \A skip \in Skips, limit \in Limits,
                tid \in FilterValues, wid \in FilterValues :
                read_flows(skip, limit, tid, wid) =>
                    \A f \in Range(resp'.body) :
                        /\ tid.given => f.transaction_id = tid.value
                        /\ wid.given => f.wallet_id = wid.value]_vars

(* ======================= claims: referential integrity ================== *)

\* C12: in every state of the store every flow names a persisted wallet and
\* a persisted transaction, and every wallet names a persisted account.
C12_ReferencesResolve ==
    /\ \A f \in Range(flows) :
          f.wallet_id \in Ids(wallets) /\ f.transaction_id \in Ids(transactions)
    /\ \A w \in Range(wallets) : w.account_id \in Ids(accounts)

\* a store holding imported rows and a flow created through the API, after
\* an import run that failed
C12_Witness ==
    /\ imp.result = "error"
    /\ Len(flows) >= 2
    /\ resp.op = "create_flow"
    /\ resp.status = 200

\* C13: a create-flow request that names a missing wallet is answered
\* "Wallet not found"; one that names a persisted wallet and a missing
\* transaction is answered "Transaction not found".
C13_NotFoundNamesEntity ==
    [][\/ resp'.op /= "create_flow"
       \/ \A p \in FlowPayloads :
             (FlowCreate_missing(p) = {} /\ create_flow(p)) =>
                 /\ p.wallet_id \notin Ids(wallets) =>
                        resp'.detail = "Wallet not found"
                 /\ (/\ p.wallet_id \in Ids(wallets)
                     /\ p.transaction_id \notin Ids(transactions)) =>
                        resp'.detail = "Transaction not found"]_vars

(* ============================ claims: sessions ========================== *)

\* C14: a request or an import run that is under way holds an open session,
\* and once it is over, with a response of 200, 404, 409 or 500, or with the
\* import committed, rolled back or stopped at parsing, its session is
\* closed.
C14_SessionsReleased ==
    /\ \A w \in Workers :
          /\ reqs[w].pc \in {"added", "inserted"} => reqs[w].session = "open"
          /\ reqs[w].pc = "done" => reqs[w].session = "closed"
    /\ imp.pc /= "idle" => imp.session = "open"
    /\ (imp.pc = "idle" /\ imp.result /= "none") => imp.session = "closed"

\* a request answered 500 after a wallet was created, and an import run
\* that failed: both over
C14_Witness ==
    /\ reqs["r1"].pc = "done"
    /\ reqs["r1"].status = 500
    /\ \E w \in Range(wallets) : w.name = "test"
    /\ imp.pc = "idle"
    /\ imp.result = "error"

(* ======================== claims: the Revolut importer ================== *)

SourceValid(source) == \A i \in DOMAIN source : RevolutFlow_valid(source[i])
MalformedSources == {source \in MoreSources : ~SourceValid(source)}
WellFormedSources == MoreSources \ MalformedSources

\* C15: a run on a source with a malformed row ends at parsing: no
\* transaction is begun, the write lock is not taken and the committed rows
\* are unchanged.
C15_ParseBeforeStorage ==
    [][\/ imp.pc /= "idle"
       \/ /\ imp'.pc = "idle"
          /\ imp'.result = "parse error"
          /\ imp'.tx = NoTx
          /\ lock' = lock
          /\ store' = store
       \/ ~\E source \in MalformedSources : import_data(source)]_vars

\* a run stopped at parsing, on a store that holds imported rows
C15_Witness ==
    /\ imp.result = "parse error"
    /\ wallets /= <<>>
    /\ flows /= <<>>

\* the flows of wallet descriptor i that ws2 has beyond those ws1 has
FlowsAt(ws, i) == IF i \in DOMAIN ws THEN ws[i].flows ELSE <<>>
Added(ws1, ws2, i) ==
    SubSeq(ws2[i].flows, Len(FlowsAt(ws1, i)) + 1, Len(ws2[i].flows))

\* what the claims say of a descriptor: type, amount, date and state
Descriptor(type, amount, date, state) ==
    [type |-> type, amount |-> amount, date |-> date, state |-> state]
Described(fs) ==
    [j \in DOMAIN fs |-> Descriptor(fs[j].type, fs[j].amount, fs[j].date, fs[j].state)]

\* one descriptor for the row, and one for its fee when it has one
RowDescriptors(row) ==
    LET primary == Descriptor(type_map[row.type], row.amount, row.started_date,
                              state_map[row.state])
    IN  IF row.fee = 0 THEN <<primary>>
        ELSE <<primary, Descriptor("PAY", -row.fee, primary.date, primary.state)>>

RECURSIVE ExpectedFlows(_, _)
ExpectedFlows(rows, name) ==
    IF rows = <<>> THEN <<>>
    ELSE (IF WalletKey(Head(rows)) = name THEN RowDescriptors(Head(rows)) ELSE <<>>)
             \o ExpectedFlows(Tail(rows), name)

\* C16: parsing a source appends, row by row, one descriptor with the row's
\* amount, mapped type and mapped state, followed when the fee is not zero
\* by exactly one descriptor of type PAY, amount minus the fee, the date and
\* the state of the first; nothing else is appended.
C16_FeeDescriptor ==
    [][(imp.pc = "idle" /\ imp'.pc = "begun") =>
          \A source \in WellFormedSources :
              import_data(source) =>
                  \A i \in DOMAIN BaseImporter_wallets' :
                      /\ SubSeq(BaseImporter_wallets'[i].flows, 1,
                                Len(FlowsAt(BaseImporter_wallets, i)))
                             = FlowsAt(BaseImporter_wallets, i)
                      /\ Described(Added(BaseImporter_wallets, BaseImporter_wallets', i))
                             = ExpectedFlows(source, BaseImporter_wallets'[i].name)]_vars

\* a parsed row with a fee: its descriptor and the fee descriptor after it
C16_Witness ==
    /\ imp.pc = "begun"
    /\ \E i \in DOMAIN BaseImporter_wallets :
          \E j \in DOMAIN BaseImporter_wallets[i].flows :
              /\ j > 1
              /\ BaseImporter_wallets[i].flows[j].description = "Fee"
              /\ BaseImporter_wallets[i].flows[j].type = "PAY"
              /\ BaseImporter_wallets[i].flows[j].amount = -100
              /\ BaseImporter_wallets[i].flows[j - 1].amount = -200

\* C17: for every wallet whose PDG flows all have a non-negative amount,
\* pending_balance >= balance.
C17_PendingAtLeastBalance ==
    \A w \in Range(wallets) :
        (\A f \in Range(flows) :
            (f.wallet_id = w.id /\ f.state = "PDG") => f.amount >= 0)
        => pending_balance(flows, w.id) >= balance(flows, w.id)

\* a wallet whose only pending flow is positive
C17_Witness ==
    \E w \in Range(wallets) :
        /\ \E f \in Range(flows) : f.wallet_id = w.id /\ f.state = "PDG"
        /\ \A f \in Range(flows) :
              (f.wallet_id = w.id /\ f.state = "PDG") => f.amount >= 0
        /\ pending_balance(flows, w.id) > balance(flows, w.id)

\* the wallet descriptors that received the descriptor of the row
AssignedTo(ws1, ws2, row) ==
    {i \in DOMAIN ws2 :
        Head(RowDescriptors(row)) \in Range(Described(Added(ws1, ws2, i)))}

\* C19: two rows of a source go to the same wallet descriptor exactly when
\* they have the same product and the same currency.
C19_WalletPerProductCurrency ==
    [][(imp.pc = "idle" /\ imp'.pc = "begun") =>
          \A source \in WellFormedSources :
              import_data(source) =>
                  \A i, j \in DOMAIN source :
                      (AssignedTo(BaseImporter_wallets, BaseImporter_wallets', source[i])
                         \cap AssignedTo(BaseImporter_wallets, BaseImporter_wallets',
                                         source[j]) /= {})
                      <=> (/\ source[i].product = source[j].product
                           /\ source[i].currency = source[j].currency)]_vars

\* a parsed source with the same product in two currencies
C19_Witness ==
    /\ imp.pc = "begun"
    /\ \E i, j \in DOMAIN BaseImporter_wallets :
          /\ BaseImporter_wallets[i].name = "Current (Currency.EUR)"
          /\ BaseImporter_wallets[j].name = "Current (Currency.USD)"
          /\ BaseImporter_wallets[i].flows /= <<>>
          /\ BaseImporter_wallets[j].flows /= <<>>

NamedAccounts(accs) == {a \in Range(accs) : a.name = account_name}

\* C20: the commit of an import run leaves exactly one account with the
\* importer's account name: the one that was there, with no account added,
\* or else one new account; every wallet the run created belongs to it.
C20_AccountResolvedOrCreated ==
    [][(imp.pc = "flushed" /\ imp'.result = "ok") =>
          /\ Cardinality(NamedAccounts(accounts')) = 1
          /\ NamedAccounts(accounts) /= {} => accounts' = accounts
          /\ NamedAccounts(accounts) = {} => Len(accounts') = Len(accounts) + 1
          /\ \A w \in Range(wallets') \ Range(wallets) :
                \A a \in NamedAccounts(accounts') : w.account_id = a.id]_vars

\* a committed run that created its account beside another account
C20_Witness ==
    /\ imp.result = "ok"
    /\ Len(accounts) = 2
    /\ \E a \in NamedAccounts(accounts) :
          /\ a.id = 2
          /\ \E w \in Range(wallets) : w.account_id = a.id

(* ========================= claims: the import batch ===================== *)

\* the flow of the batch made from flow descriptor d: it has the amount and
\* the state of d, it is on the one new wallet named as d's wallet
\* descriptor, and its transaction is a new one with the type, the date and
\* the description of d
MadeFrom(f, d, newW, newT) ==
    /\ f.amount = d.flow.amount
    /\ f.state = d.flow.state
    /\ \E w \in Range(newW) :
          w.id = f.wallet_id /\ w.name = BaseImporter_wallets[d.wallet].name
    /\ \E t \in Range(newT) :
          /\ t.id = f.transaction_id
          /\ t.type = d.flow.type
          /\ t.date = d.flow.date
          /\ t.description = d.flow.description

\* C21: the commit of an import run adds exactly one wallet for every wallet
\* descriptor, and exactly one transaction and one flow for every flow
\* descriptor; the flow is on the wallet of its descriptor and on the
\* transaction made from the same descriptor, and no two flows of the batch
\* share a transaction.
C21_OnePerDescriptor ==
    [][(imp.pc = "flushed" /\ imp'.result = "ok") =>
          LET newW == NewRows(wallets', wallets)
              newT == NewRows(transactions', transactions)
              newF == NewRows(flows', flows)
              ds == FlowDescriptors(BaseImporter_wallets, 1)
          IN  /\ Len(newW) = Len(BaseImporter_wallets)
              /\ \A i \in DOMAIN BaseImporter_wallets :
                    Cardinality({k \in DOMAIN newW :
                                    newW[k].name = BaseImporter_wallets[i].name}) = 1
              /\ Len(newT) = Len(ds)
              /\ Len(newF) = Len(ds)
              /\ \A j, k \in DOMAIN newF :
                    newF[j].transaction_id = newF[k].transaction_id => j = k
              /\ \E pi \in Permutations(DOMAIN ds) :
                    \A k \in DOMAIN ds : MadeFrom(newF[pi[k]], ds[k], newW, newT)]_vars

\* a committed run of two wallet descriptors with a flow descriptor each
C21_Witness ==
    /\ imp.result = "ok"
    /\ Len(BaseImporter_wallets) = 2
    /\ Len(wallets) = 2
    /\ Len(transactions) = 2
    /\ Len(flows) = 2
    /\ flows[1].wallet_id /= flows[2].wallet_id
    /\ flows[1].transaction_id /= flows[2].transaction_id
    /\ \A i \in DOMAIN BaseImporter_wallets :
          \E w \in Range(wallets) :
              /\ w.name = BaseImporter_wallets[i].name
              /\ AmountsOf(WalletFlows(flows, w.id)) =
                     AmountsOf(BaseImporter_wallets[i].flows)

\* C22: an importer instance begins its transaction with the wallet
\* descriptors of its own source alone, whatever instances ran before it in
\* the process; the batch it persists is made from these.
C22_InstancesIndependent ==
    [][(imp.pc = "idle" /\ imp'.pc = "begun") =>
          \A source \in WellFormedSources :
              import_data(source) =>
                  BaseImporter_wallets' = ImportRows(<<>>, source)]_vars

(* ======================= claims: flows through the API ================== *)

\* C23: a create-flow request with a valid payload persists a flow in the
\* state the payload gives, and the wallet's balance and pending_balance
\* count it by that state: balance when CPL, pending_balance unless RVT.
C23_PayloadStatePersisted ==
    [][\/ resp'.op /= "create_flow"
       \/ \A p \in FlowPayloads :
             (/\ FlowCreate_missing(p) = {}
              /\ "state" \in p.keys
              /\ p.state \in State
              /\ p.wallet_id \in Ids(wallets)
              /\ p.transaction_id \in Ids(transactions)
              /\ create_flow(p))
             => /\ Len(flows') = Len(flows) + 1
                /\ flows'[Len(flows')].state = p.state
                /\ balance(flows', p.wallet_id) =
                       balance(flows, p.wallet_id)
                           + (IF p.state = "CPL" THEN p.amount ELSE 0)
                /\ pending_balance(flows', p.wallet_id) =
                       pending_balance(flows, p.wallet_id)
                           + (IF p.state /= "RVT" THEN p.amount ELSE 0)]_vars

(* ============================== claims: frame ========================== *)

\* balance and pending_balance of the wallet, as the properties give them
\* and as the class-level expressions give them
Balances(fl, w) ==
    <<balance(fl, w.id), pending_balance(fl, w.id),
      balance_expression(fl, w), pending_balance_expression(fl, w)>>

\* C24: creating a flow on wallet W leaves the balance and the
\* pending_balance of every other wallet as they were; creating an account,
\* a wallet or a transaction leaves those of every existing wallet as they
\* were.  (A request that adds no flow is not examined payload by payload:
\* the balances are functions of the flows and of the wallet.)
C24_BalancesFramed ==
    [][/\ \/ resp'.op /= "create_flow"
          \/ flows' = flows
          \/ \A p \in FlowPayloads :
                create_flow(p) =>
                    \A w \in Range(wallets) :
                        w.id /= p.wallet_id => Balances(flows', w) = Balances(flows, w)
       /\ \/ resp'.op \notin {"create_account", "create_wallet", "create_transaction"}
          \/ \A w \in Range(wallets) : Balances(flows', w) = Balances(flows, w)]_vars

\* a flow created on the second of two wallets, the first holding a flow
C24_Witness ==
    /\ resp.op = "create_flow"
    /\ resp.status = 200
    /\ Len(wallets) = 2
    /\ Len(flows) = 2
    /\ flows[1].wallet_id = 1
    /\ flows[2].wallet_id = 2
    /\ balance(flows, 1) = 100
    /\ balance(flows, 2) = 100

(* ============================ claims: re-import ========================= *)

\* the store holds, under the account the run resolved, a wallet named as
\* one of the run's wallet descriptors
Clash ==
    /\ imp.account_db /= 0
    /\ \E i \in DOMAIN BaseImporter_wallets :
          \E w \in Range(wallets) :
              /\ w.account_id = imp.account_db
              /\ w.name = BaseImporter_wallets[i].name

\* C25: an import run on a store that holds, under the importer's account,
\* a wallet named as one of the run's wallet descriptors fails at the flush
\* on the uniqueness constraint of wallets and ends rolled back, the
\* committed rows unchanged; no two wallets ever share name and account.
C25_ReimportRejected ==
    [][/\ (imp' /= imp /\ imp.pc = "generated" /\ Clash) =>
             /\ imp'.pc = "failed"
             /\ Flush(Committed, BaseImporter_wallets, imp.account_db).error.msg
                    = UniqueWalletMsg
             /\ store' = store
       /\ (imp' /= imp /\ imp.pc = "failed" /\ Clash) =>
             /\ imp'.pc = "idle"
             /\ imp'.result = "error"
             /\ store' = store
       /\ \A i, j \in DOMAIN wallets' :
             SameWallet(wallets'[i], wallets'[j]) => i = j]_vars

\* a run of two wallet descriptors stopped at the flush, on a store that
\* holds the wallet of one of them with its flows; the flush wrote no
\* transaction and no flow
C25_Witness ==
    /\ imp.pc = "failed"
    /\ Clash
    /\ flows /= <<>>
    /\ imp.tx.flows = flows
    /\ imp.tx.transactions = transactions
    /\ Len(BaseImporter_wallets) = 2
====
